---- MODULE Spec2Model ----
(***************************************************************************)
(* Hand-sign detection desktop application: the shared HandSignDetector    *)
(* (detector.py), the background workers and the tabs (widgets.py), the    *)
(* history export (utils.py).                                              *)
(*                                                                         *)
(* Threads are modelled as processes with a program counter each.  A step  *)
(* of a worker is one access to state that another thread can see (a       *)
(* detector field, the history list, a stop flag, a signal emission);      *)
(* purely local computation is folded into the step that follows it.       *)
(*                                                                         *)
(* Python lists are objects: detector.detection_history is a reference.    *)
(* "lists" is the heap of list objects and "detection_history" the         *)
(* reference the detector currently holds, so that                         *)
(* "self.detector.detection_history = []" (a new object) and               *)
(* "self.detector.detection_history.append(x)" (attribute load, then the   *)
(* call on the loaded object) are modelled as the interpreter runs them.   *)
(***************************************************************************)
EXTENDS Integers, Sequences, FiniteSets, TLC

(* ---- bounds of the model ---- *)
MaxFrames == 2
MaxBoxes == 1
MaxRuns == 2
MaxClears == 1

(* ---- inputs ---- *)
FileStates == {"ok", "missing", "unreadable"}

(* a video source: whether it opens, the frames it really delivers, and   *)
(* the frame count its container reports (CAP_PROP_FRAME_COUNT)           *)
VideoSources ==
    [opens : BOOLEAN, nframes : 0..MaxFrames, frame_count : 0..MaxFrames]

(* a camera: whether it opens, whether a read of it ever fails, and the    *)
(* number of frames it delivers before that read                          *)
Cameras == [opens : BOOLEAN, fails : BOOLEAN, nframes : 0..MaxFrames]

VARIABLES
    lists,              \* heap of list objects: list id -> sequence of records
    detection_history,  \* detector.detection_history: id of the current list
    current_frame,      \* detector.current_frame
    results,            \* detector.results
    nruns,              \* number of runs started so far (bounds the model)
    fs,                 \* files and directories created so far
    ui,                 \* the modal dialog the UI thread is in, or "idle"
    x_ref,              \* export_history: the list object held while the dialog is open
    csv_rows,           \* number of rows of the last CSV file written (-1: none)
    i_pc, i_file, i_boxes, i_ref, i_sig, i_seen, i_detect_btn,
    i_save_btn,
    v_pc, v_file, v_running, v_src, v_idx, v_written, v_cap, v_out, v_ref,
    v_exit, v_sig, v_seen, v_detect_btn, v_stop_btn, v_save_btn, v_worker,
    w_pc, w_running, w_cam, w_count, w_cap, w_ref, w_pending, w_err,
    w_active, w_thread, w_waiting, w_start_btn, w_stop_btn,
    a_pc, a_outpath, a_cb, a_stopsig, a_src, a_cam, a_idx, a_cap, a_wr,
    a_written, a_ref, a_ret, a_calls, a_stopped,
    x_ret,              \* result of the last direct call of export_detection_history
    v_stop_idx,         \* frame_idx when stop() was first called on the worker (-1: not called)
    model,              \* detector.model: the weights it holds ("unset" before construction)
    model_path,         \* what the model_path argument of the constructor names
    default_ok,         \* whether the default weights yolo11n.pt can be loaded
    saved,              \* the frame held by the file save_current_frame wrote last
    s_ret               \* what the last call of save_current_frame returned

vars == <<lists, detection_history, current_frame, results, nruns, fs, ui,
          x_ref, csv_rows, x_ret,
          i_pc, i_file, i_boxes, i_ref, i_sig, i_seen, i_detect_btn,
          i_save_btn,
          v_pc, v_file, v_running, v_src, v_idx, v_written, v_cap, v_out,
          v_ref, v_exit, v_sig, v_seen, v_detect_btn, v_stop_btn, v_save_btn,
          v_worker,
          w_pc, w_running, w_cam, w_count, w_cap, w_ref, w_pending, w_err,
          w_active, w_thread, w_waiting, w_start_btn, w_stop_btn,
          a_pc, a_outpath, a_cb, a_stopsig, a_src, a_cam, a_idx, a_cap, a_wr,
          a_written, a_ref, a_ret, a_calls, a_stopped, v_stop_idx,
          model, model_path, default_ok, saved, s_ret>>

ctorVars == <<model, model_path, default_ok>>
saveVars == <<saved, s_ret>>

\* what most steps leave alone
extVars == <<v_stop_idx, ctorVars, saveVars>>

detVars == <<lists, detection_history, current_frame, results>>
histTabVars == <<fs, ui, x_ref, csv_rows, x_ret>>
imgVars == <<i_pc, i_file, i_boxes, i_ref, i_sig, i_seen, i_detect_btn,
             i_save_btn>>
vidRunVars == <<v_src, v_idx, v_written, v_cap, v_out, v_ref, v_exit>>
vidTabVars == <<v_file, v_detect_btn, v_stop_btn, v_save_btn, v_worker,
                v_seen>>
vidVars == <<v_pc, v_running, v_sig, vidRunVars, vidTabVars>>
camRunVars == <<w_cam, w_count, w_cap, w_ref>>
camTabVars == <<w_active, w_thread, w_start_btn, w_stop_btn>>
camVars == <<w_pc, w_running, w_pending, w_err, w_waiting, camRunVars,
             camTabVars>>
apiArgVars == <<a_outpath, a_cb, a_stopsig>>
apiRunVars == <<a_src, a_cam, a_idx, a_cap, a_wr, a_written, a_ref, a_calls,
                a_stopped>>
apiVars == <<a_pc, a_ret, apiArgVars, apiRunVars>>
exceptImg == <<vidVars, camVars, apiVars>>
exceptVid == <<imgVars, camVars, apiVars>>
exceptCam == <<imgVars, vidVars, apiVars>>
exceptApi == <<imgVars, vidVars, camVars>>
workerVars == <<imgVars, vidVars, camVars, apiVars>>

(* ---- the UI thread ---- *)

\* the modal message boxes of utils.show_info_message / show_error_message
MessageBoxes == {"msg_already_empty", "msg_cleared", "msg_export_no_data",
                 "msg_exported", "msg_export_failed"}

\* a button can be clicked: no modal dialog is open
UserActs == ui = "idle" /\ ~w_waiting

\* queued signals are delivered to their slots by the event loop of the UI
\* thread, also by the nested event loop of a modal dialog, but not while
\* the thread is blocked in QThread.wait(); no loop runs before the window
\* exists, nor in closeEvent and after it
SlotsRun == ~w_waiting /\ ui \notin {"starting", "failed", "closing", "closed"}

(* ---- the detector ---- *)

\* get_detection_history: the list the detector currently refers to
History == lists[detection_history]

\* a list whose append writes over the record appended last
ListAppendOverwrites(r, rec) ==
    [lists EXCEPT ![r] = IF Len(@) > 0
                         THEN Append(SubSeq(@, 1, Len(@) - 1), rec)
                         ELSE Append(@, rec)]

\* a list whose append puts the record at the front
ListAppendFront(r, rec) == [lists EXCEPT ![r] = <<rec>> \o @]

\* list.append on the list object with id r
ListAppend(r, rec) == [lists EXCEPT ![r] = Append(@, rec)]

\* HistoryTab.update_history_table, "for row, item in enumerate(history)":
\* the rows of the table, the record at index row of the list in row
Enumerate == [row \in 1..Len(History) |-> History[row]]

ImageRecord(n) == [type |-> "image", count |-> n]
VideoRecord(n) == [type |-> "video", count |-> n]
WebcamRecord(n) == [type |-> "webcam", count |-> n]

DetectorInit ==
    /\ lists = [k \in 0..MaxClears |-> <<>>]
    /\ detection_history = 0
    /\ current_frame = "None"
    /\ results = "None"

\* what the model_path argument can name: no path at all (None), a path
\* with no file, a file YOLO cannot load, a file YOLO loads
PathStates == {"None", "missing", "invalid", "valid"}

\* HandSignDetector.__init__, the choice of the weights: the default ones
\* when model_path is None or names no file, else the file at model_path;
\* YOLO(...) raises when it cannot load what it is given
LoadModel(path, dflt) ==
    IF path \in {"None", "missing"}
    THEN IF dflt THEN "default" ELSE "raised"
    ELSE IF path = "valid" THEN "custom" ELSE "raised"

\* MainWindow.__init__ constructs the detector; an exception of the
\* constructor ends the application before its window exists
ConstructDetector ==
    /\ ui = "starting"
    /\ model = "unset"
    /\ model' = LoadModel(model_path, default_ok)
    /\ ui' = IF model' = "raised" THEN "failed" ELSE "idle"
    /\ UNCHANGED <<model_path, default_ok, v_stop_idx, saveVars>>
    /\ UNCHANGED <<detVars, fs, x_ref, csv_rows, x_ret, workerVars, nruns>>

\* the directory part of the path given to save_current_frame: none at all,
\* a directory that exists, one that os.makedirs creates, one it cannot
\* create (os.makedirs raises)
SaveDirs == {"none", "exists", "creatable", "uncreatable"}

\* cv2.imwrite: it returns True or False, or raises (cv2.error, for a path
\* whose extension names no image format)
WriteOutcomes == {"True", "False", "raised"}

\* HandSignDetector.save_current_frame on the frame held, the files f, a
\* path with directory part dir, and the outcome wr of the write
SaveCurrentFrame(frame, f, dir, wr) ==
    IF frame = "None"
    THEN [ret |-> "False", fs |-> f, wrote |-> FALSE]
    ELSE IF dir = "uncreatable"
    THEN [ret |-> "raised", fs |-> f, wrote |-> FALSE]
    ELSE LET made == IF dir = "creatable" THEN f \cup {"save_dir"} ELSE f IN
         [ret |-> wr,
          fs |-> IF wr = "True" THEN made \cup {"saved_file"} ELSE made,
          wrote |-> wr = "True"]

SaveInit ==
    /\ saved = "none"
    /\ s_ret = "none"

\* a direct call of save_current_frame(save_path)
SaveCurrentFrameCall ==
    /\ UserActs
    /\ \E dir \in SaveDirs, wr \in WriteOutcomes :
          LET r == SaveCurrentFrame(current_frame, fs, dir, wr) IN
             /\ fs' = r.fs
             /\ saved' = IF r.wrote THEN current_frame ELSE saved
             /\ s_ret' = r.ret
    /\ UNCHANGED <<ui, x_ref, csv_rows, x_ret>>
    /\ UNCHANGED <<detVars, workerVars, nruns, v_stop_idx, ctorVars>>

\* the detector of the running application: best.pt was not there and the
\* default weights were loaded (which weights it holds changes no step)
Constructed ==
    /\ model = "default"
    /\ model_path = "missing"
    /\ default_ok = TRUE

(* ---- image tab and ImageDetectionWorker ---- *)

ImageInit ==
    /\ i_pc = "idle"
    /\ i_file = "unset"
    /\ i_boxes = 0
    /\ i_ref = 0
    /\ i_sig = <<>>
    /\ i_seen = 0
    /\ i_detect_btn = FALSE
    /\ i_save_btn = FALSE

\* ImageDetectionTab.select_image: an existing file was chosen in the
\* dialog
SelectImage ==
    /\ UserActs
    /\ i_pc = "idle"
    /\ i_file' = "ok"
    /\ i_detect_btn' = TRUE
    /\ UNCHANGED <<i_pc, i_boxes, i_ref, i_sig, i_seen, i_save_btn>>
    /\ UNCHANGED <<detVars, histTabVars, exceptImg, nruns, extVars>>

\* ImageDetectionTab.start_detection: the button is disabled and a worker
\* is handed to the thread pool.  What the selected path holds on disk by
\* now is an input of the run.
ImageStart ==
    /\ UserActs
    /\ i_detect_btn
    /\ i_file # "unset"
    /\ i_file' \in FileStates
    /\ nruns < MaxRuns
    /\ nruns' = nruns + 1
    /\ UNCHANGED extVars
    /\ i_detect_btn' = FALSE
    /\ i_save_btn' = FALSE
    /\ i_pc' = "read"
    /\ UNCHANGED <<i_boxes, i_ref, i_sig, i_seen>>
    /\ UNCHANGED <<detVars, histTabVars, exceptImg>>

\* ImageRead without the "img is None" check: an unreadable file goes on
\* to the inference call
ImageReadUnchecked ==
    /\ i_pc = "read"
    /\ i_pc' = IF i_file = "missing" THEN "except" ELSE "infer"
    /\ UNCHANGED <<i_file, i_boxes, i_ref, i_sig, i_seen, i_detect_btn,
                   i_save_btn>>
    /\ UNCHANGED <<detVars, histTabVars, exceptImg, nruns, extVars>>

\* detect_image, the file checks: os.path.exists raises FileNotFoundError,
\* cv2.imread returning None raises ValueError
ImageRead ==
    /\ i_pc = "read"
    /\ i_pc' = IF i_file = "ok" THEN "infer" ELSE "except"
    /\ UNCHANGED <<i_file, i_boxes, i_ref, i_sig, i_seen, i_detect_btn,
                   i_save_btn>>
    /\ UNCHANGED <<detVars, histTabVars, exceptImg, nruns, extVars>>

\* detect_image, the inference call and the two stores that follow it: the
\* model returns n boxes, or raises
ImageInfer ==
    /\ i_pc = "infer"
    /\ \/ \E n \in 0..MaxBoxes :
             /\ i_boxes' = n
             /\ results' = "image"
             /\ current_frame' = "image_raw"
             /\ i_pc' = "load"
       \/ /\ i_pc' = "except"
          /\ UNCHANGED <<i_boxes, results, current_frame>>
    /\ UNCHANGED <<i_file, i_ref, i_sig, i_seen, i_detect_btn, i_save_btn>>
    /\ UNCHANGED <<lists, detection_history, histTabVars, exceptImg, nruns, extVars>>

\* detect_image, self.detection_history.append(...): the attribute load
ImageLoadHistory ==
    /\ i_pc = "load"
    /\ i_ref' = detection_history
    /\ i_pc' = "append"
    /\ UNCHANGED <<i_file, i_boxes, i_sig, i_seen, i_detect_btn, i_save_btn>>
    /\ UNCHANGED <<detVars, histTabVars, exceptImg, nruns, extVars>>

\* detect_image, self.detection_history.append(...): the call on the
\* loaded list object
ImageAppend ==
    /\ i_pc = "append"
    /\ lists' = ListAppend(i_ref, ImageRecord(i_boxes))
    /\ i_pc' = "result"
    /\ UNCHANGED <<i_file, i_boxes, i_ref, i_sig, i_seen, i_detect_btn,
                   i_save_btn>>
    /\ UNCHANGED <<detection_history, current_frame, results, histTabVars,
                   exceptImg, nruns, extVars>>

\* ImageDetectionWorker.run: signals.result.emit
ImageEmitResult ==
    /\ i_pc = "result"
    /\ i_sig' = Append(i_sig, <<"result", i_boxes>>)
    /\ i_pc' = "finally"
    /\ UNCHANGED <<i_file, i_boxes, i_ref, i_seen, i_detect_btn, i_save_btn>>
    /\ UNCHANGED <<detVars, histTabVars, exceptImg, nruns, extVars>>

\* ImageDetectionWorker.run: except Exception: signals.error.emit
ImageEmitError ==
    /\ i_pc = "except"
    /\ i_sig' = Append(i_sig, <<"error", 0>>)
    /\ i_pc' = "finally"
    /\ UNCHANGED <<i_file, i_boxes, i_ref, i_seen, i_detect_btn, i_save_btn>>
    /\ UNCHANGED <<detVars, histTabVars, exceptImg, nruns, extVars>>

\* ImageDetectionWorker.run: finally: signals.finished.emit
ImageEmitFinished ==
    /\ i_pc = "finally"
    /\ i_sig' = Append(i_sig, <<"finished", 0>>)
    /\ i_pc' = "done"
    /\ UNCHANGED <<i_file, i_boxes, i_ref, i_seen, i_detect_btn, i_save_btn>>
    /\ UNCHANGED <<detVars, histTabVars, exceptImg, nruns, extVars>>

\* The UI thread delivers the next queued signal of the image worker to
\* its slot: detection_complete, detection_error or detection_finished.
\* The UI thread runs slots from its event loop, also from the nested loop
\* of a modal dialog.
ImageSlot ==
    /\ SlotsRun
    /\ i_seen < Len(i_sig)
    /\ LET s == i_sig[i_seen + 1][1] IN
          IF s = "finished"
          THEN \* detection_finished; the worker object is dropped
               /\ i_detect_btn' = TRUE
               /\ i_pc' = "idle"
               /\ i_boxes' = 0
               /\ i_ref' = 0
               /\ i_sig' = <<>>
               /\ i_seen' = 0
               /\ UNCHANGED i_save_btn
          ELSE \* detection_complete or detection_error
               /\ i_save_btn' = IF s = "result" THEN TRUE ELSE i_save_btn
               /\ i_seen' = i_seen + 1
               /\ UNCHANGED <<i_detect_btn, i_pc, i_boxes, i_ref, i_sig>>
    /\ UNCHANGED i_file
    /\ UNCHANGED <<detVars, histTabVars, exceptImg, nruns, extVars>>

(* ---- history tab and utils.export_detection_history ---- *)

HistoryTabInit ==
    /\ fs = {}
    /\ ui = "idle"
    /\ x_ref = 0
    /\ csv_rows = -1
    /\ x_ret = "none"

\* export_detection_history without the "if not history" check
ExportDetectionHistoryUnchecked(history, f) ==
    [ok |-> TRUE, fs |-> f \cup {"export_dir", "csv"}, rows |-> Len(history)]

\* utils.export_detection_history(history, export_path) on the file system
\* f: the value returned, the file system afterwards and the number of
\* rows of the file written (-1 when no file is written)
ExportDetectionHistory(history, f) ==
    IF Len(history) = 0
    THEN [ok |-> FALSE, fs |-> f, rows |-> -1]
    ELSE [ok |-> TRUE, fs |-> f \cup {"export_dir", "csv"},
          rows |-> Len(history)]

\* utils.get_default_save_path: creates the default directory
GetDefaultSavePath(f) == f \cup {"base_dir"}

\* clear_history without the test for an empty log: the question dialog
\* opens on an empty log too
ClearHistoryEmptyAsks ==
    /\ UserActs
    /\ Len(History) = 0
    /\ ui' = "clear_confirm"
    /\ UNCHANGED <<fs, x_ref, csv_rows, x_ret>>
    /\ UNCHANGED <<detVars, workerVars, nruns, extVars>>

\* HistoryTab.clear_history on an empty log: the "already empty" message
\* box, and return
ClearHistoryEmpty ==
    /\ UserActs
    /\ Len(History) = 0
    /\ ui' = "msg_already_empty"
    /\ UNCHANGED <<fs, x_ref, csv_rows, x_ret>>
    /\ UNCHANGED <<detVars, workerVars, nruns, extVars>>

\* HistoryTab.clear_history on a non-empty log: the question dialog opens
ClearHistoryAsk ==
    /\ UserActs
    /\ Len(History) > 0
    /\ detection_history < MaxClears
    /\ ui' = "clear_confirm"
    /\ UNCHANGED <<fs, x_ref, csv_rows, x_ret>>
    /\ UNCHANGED <<detVars, workerVars, nruns, extVars>>

\* clear_history that on Yes removes the oldest record only
ClearHistoryAnswerOldest ==
    /\ ui = "clear_confirm"
    /\ ~w_waiting
    /\ \E confirm \in BOOLEAN :
          IF confirm
          THEN /\ lists' = [lists EXCEPT ![detection_history] = Tail(@)]
               /\ ui' = "msg_cleared"
          ELSE /\ ui' = "idle"
               /\ UNCHANGED lists
    /\ UNCHANGED <<fs, x_ref, csv_rows, x_ret>>
    /\ UNCHANGED <<detection_history, current_frame, results, workerVars,
                   nruns, extVars>>

\* HistoryTab.clear_history, the answer to the question dialog: on Yes the
\* detector is given a new empty list and the "cleared" message box opens
ClearHistoryAnswer ==
    /\ ui = "clear_confirm"
    /\ ~w_waiting
    /\ \E confirm \in BOOLEAN :
          IF confirm
          THEN /\ detection_history' = detection_history + 1
               /\ ui' = "msg_cleared"
          ELSE /\ ui' = "idle"
               /\ UNCHANGED detection_history
    /\ UNCHANGED <<fs, x_ref, csv_rows, x_ret>>
    /\ UNCHANGED <<lists, current_frame, results, workerVars, nruns, extVars>>

\* HistoryTab.export_history on an empty log: the "export failed, no data"
\* message box, and return
ExportHistoryEmpty ==
    /\ UserActs
    /\ Len(History) = 0
    /\ ui' = "msg_export_no_data"
    /\ UNCHANGED <<fs, x_ref, csv_rows, x_ret>>
    /\ UNCHANGED <<detVars, workerVars, nruns, extVars>>

\* HistoryTab.export_history on a non-empty log: the list object is kept in
\* the local "history" and the save dialog opens
ExportHistoryAsk ==
    /\ UserActs
    /\ Len(History) > 0
    /\ x_ref' = detection_history
    /\ fs' = GetDefaultSavePath(fs)
    /\ ui' = "export_dialog"
    /\ UNCHANGED <<csv_rows, x_ret>>
    /\ UNCHANGED <<detVars, workerVars, nruns, extVars>>

\* HistoryTab.export_history, the answer to the save dialog: a path, or
\* cancelled
ExportHistoryAnswer ==
    /\ ui = "export_dialog"
    /\ ~w_waiting
    /\ \E chosen \in BOOLEAN :
          IF chosen
          THEN LET r == ExportDetectionHistory(lists[x_ref], fs) IN
                  /\ fs' = r.fs
                  /\ csv_rows' = IF r.ok THEN r.rows ELSE csv_rows
                  /\ ui' = IF r.ok THEN "msg_exported" ELSE "msg_export_failed"
          ELSE /\ ui' = "idle"
               /\ UNCHANGED <<fs, csv_rows>>
    /\ x_ref' = 0
    /\ UNCHANGED x_ret
    /\ UNCHANGED <<detVars, workerVars, nruns, extVars>>

\* utils.show_info_message / show_error_message: the message box is closed
DismissMessage ==
    /\ ui \in MessageBoxes
    /\ ~w_waiting
    /\ ui' = "idle"
    /\ UNCHANGED <<fs, x_ref, csv_rows, x_ret>>
    /\ UNCHANGED <<detVars, workerVars, nruns, extVars>>

(* ---- video tab and VideoDetectionWorker ---- *)

\* the value of the worker's source fields while no capture is open
NoSource == [opens |-> FALSE, nframes |-> 0, frame_count |-> 0]

VideoInit ==
    /\ v_pc = "idle"
    /\ v_file = "unset"
    /\ v_running = FALSE
    /\ v_src = NoSource
    /\ v_idx = 0
    /\ v_written = <<>>
    /\ v_cap = "none"
    /\ v_out = "none"
    /\ v_ref = 0
    /\ v_exit = "none"
    /\ v_sig = <<>>
    /\ v_seen = 0
    /\ v_detect_btn = FALSE
    /\ v_stop_btn = FALSE
    /\ v_save_btn = FALSE
    /\ v_worker = FALSE
    /\ v_stop_idx = -1

\* int(frame_idx / frame_count * 100) for frame_count > 0
Progress(frame_idx, frame_count) == (frame_idx * 100) \div frame_count

\* VideoDetectionTab.select_video
SelectVideo ==
    /\ UserActs
    /\ v_pc = "idle"
    /\ v_file' = "set"
    /\ v_detect_btn' = TRUE
    /\ UNCHANGED <<v_pc, v_running, v_sig, vidRunVars, v_stop_btn, v_save_btn,
                   v_worker, v_seen>>
    /\ UNCHANGED <<detVars, histTabVars, exceptVid, nruns, extVars>>

\* VideoDetectionTab.start_detection
VideoStart ==
    /\ UserActs
    /\ v_detect_btn
    /\ v_file = "set"
    /\ nruns < MaxRuns
    /\ nruns' = nruns + 1
    /\ v_stop_idx' = -1
    /\ UNCHANGED <<ctorVars, saveVars>>
    /\ fs' = GetDefaultSavePath(fs)
    /\ v_detect_btn' = FALSE
    /\ v_stop_btn' = TRUE
    /\ v_save_btn' = FALSE
    /\ v_worker' = TRUE
    /\ v_running' = TRUE
    /\ v_pc' = "open"
    /\ UNCHANGED <<v_file, v_sig, v_seen, vidRunVars>>
    /\ UNCHANGED <<detVars, ui, x_ref, csv_rows, x_ret, exceptVid>>

\* a stop_detection that also re-arms the tab at once
VideoStopRearms ==
    /\ UserActs
    /\ v_worker
    /\ v_running' = FALSE
    /\ v_stop_idx' = IF v_stop_idx = -1 THEN v_idx ELSE v_stop_idx
    /\ UNCHANGED <<ctorVars, saveVars>>
    /\ v_detect_btn' = TRUE
    /\ v_stop_btn' = FALSE
    /\ UNCHANGED <<v_pc, v_sig, vidRunVars, v_file, v_save_btn, v_worker,
                   v_seen>>
    /\ UNCHANGED <<detVars, histTabVars, exceptVid, nruns>>

\* VideoDetectionTab.stop_detection -> VideoDetectionWorker.stop
VideoStop ==
    /\ UserActs
    /\ v_worker
    /\ v_running' = FALSE
    /\ v_stop_idx' = IF v_stop_idx = -1 THEN v_idx ELSE v_stop_idx
    /\ UNCHANGED <<ctorVars, saveVars>>
    /\ UNCHANGED <<v_pc, v_sig, vidRunVars, vidTabVars>>
    /\ UNCHANGED <<detVars, histTabVars, exceptVid, nruns>>

\* VideoDetectionWorker.run: the capture and the writer are opened
VideoOpen ==
    /\ v_pc = "open"
    /\ \E src \in VideoSources :
          IF src.opens
          THEN /\ v_src' = src
               /\ v_cap' = "open"
               /\ v_out' = "open"
               /\ fs' = fs \cup {"video_out"}
               /\ v_pc' = "loop"
               /\ UNCHANGED v_exit
          ELSE /\ v_pc' = "except"
               /\ v_exit' = "error"
               /\ UNCHANGED <<v_src, v_cap, v_out, fs>>
    /\ UNCHANGED <<v_running, v_sig, v_idx, v_written, v_ref, vidTabVars>>
    /\ UNCHANGED <<detVars, ui, x_ref, csv_rows, x_ret, exceptVid, nruns, extVars>>

\* the loop test without the flag: while cap.isOpened()
VideoLoopTestNoFlag ==
    /\ v_pc = "loop"
    /\ v_pc' = "frame"
    /\ UNCHANGED <<v_running, v_sig, v_src, v_idx, v_written, v_cap, v_out,
                   v_ref, v_exit, vidTabVars>>
    /\ UNCHANGED <<detVars, histTabVars, exceptVid, nruns, extVars>>

\* VideoDetectionWorker.run: while cap.isOpened() and self.is_running
VideoLoopTest ==
    /\ v_pc = "loop"
    /\ IF v_running
       THEN /\ v_pc' = "frame"
            /\ UNCHANGED v_exit
       ELSE /\ v_pc' = "release"
            /\ v_exit' = "stop"
    /\ UNCHANGED <<v_running, v_sig, v_src, v_idx, v_written, v_cap, v_out,
                   v_ref, vidTabVars>>
    /\ UNCHANGED <<detVars, histTabVars, exceptVid, nruns, extVars>>

\* a loop body whose exceptions are swallowed: the run leaves the loop and
\* goes on to release and record
VideoFrameSwallows ==
    /\ v_pc = "frame"
    /\ \/ /\ v_idx = v_src.nframes
          /\ v_pc' = "release"
          /\ v_exit' = "eos"
          /\ UNCHANGED <<v_idx, v_written, v_sig>>
       \/ /\ v_idx < v_src.nframes
          /\ v_pc' = "release"
          /\ v_exit' = "error"
          /\ UNCHANGED <<v_idx, v_written, v_sig>>
       \/ /\ v_idx < v_src.nframes
          /\ v_written' = Append(v_written, v_idx + 1)
          /\ v_idx' = v_idx + 1
          /\ IF v_src.frame_count = 0
             THEN /\ v_pc' = "release"
                  /\ v_exit' = "error"
                  /\ UNCHANGED v_sig
             ELSE /\ v_pc' = "loop"
                  /\ v_sig' = Append(v_sig,
                        <<"progress", Progress(v_idx + 1, v_src.frame_count)>>)
                  /\ UNCHANGED v_exit
    /\ UNCHANGED <<v_running, v_src, v_cap, v_out, v_ref, vidTabVars>>
    /\ UNCHANGED <<detVars, histTabVars, exceptVid, nruns, extVars>>

\* VideoDetectionWorker.run, one iteration of the loop body: read, infer,
\* write, progress
VideoFrame ==
    /\ v_pc = "frame"
    /\ \/ /\ v_idx = v_src.nframes
          /\ v_pc' = "release"
          /\ v_exit' = "eos"
          /\ UNCHANGED <<v_idx, v_written, v_sig>>
       \/ /\ v_idx < v_src.nframes
          /\ v_pc' = "except"
          /\ v_exit' = "error"
          /\ UNCHANGED <<v_idx, v_written, v_sig>>
       \/ /\ v_idx < v_src.nframes
          /\ v_written' = Append(v_written, v_idx + 1)
          /\ v_idx' = v_idx + 1
          /\ IF v_src.frame_count = 0
             THEN /\ v_pc' = "except"
                  /\ v_exit' = "error"
                  /\ UNCHANGED v_sig
             ELSE /\ v_pc' = "loop"
                  /\ v_sig' = Append(v_sig,
                        <<"progress", Progress(v_idx + 1, v_src.frame_count)>>)
                  /\ UNCHANGED v_exit
    /\ UNCHANGED <<v_running, v_src, v_cap, v_out, v_ref, vidTabVars>>
    /\ UNCHANGED <<detVars, histTabVars, exceptVid, nruns, extVars>>

\* the release step without out.release()
VideoReleaseCaptureOnly ==
    /\ v_pc = "release"
    /\ v_cap' = "released"
    /\ v_pc' = "load"
    /\ UNCHANGED <<v_running, v_sig, v_src, v_idx, v_written, v_out, v_ref,
                   v_exit, vidTabVars>>
    /\ UNCHANGED <<detVars, histTabVars, exceptVid, nruns, extVars>>

\* VideoDetectionWorker.run: cap.release(), out.release()
VideoRelease ==
    /\ v_pc = "release"
    /\ v_cap' = "released"
    /\ v_out' = "released"
    /\ v_pc' = "load"
    /\ UNCHANGED <<v_running, v_sig, v_src, v_idx, v_written, v_ref, v_exit,
                   vidTabVars>>
    /\ UNCHANGED <<detVars, histTabVars, exceptVid, nruns, extVars>>

\* VideoDetectionWorker.run, self.detector.detection_history.append(...):
\* the attribute load
VideoLoadHistory ==
    /\ v_pc = "load"
    /\ v_ref' = detection_history
    /\ v_pc' = "append"
    /\ UNCHANGED <<v_running, v_sig, v_src, v_idx, v_written, v_cap, v_out,
                   v_exit, vidTabVars>>
    /\ UNCHANGED <<detVars, histTabVars, exceptVid, nruns, extVars>>

\* the append with "frames": frame_idx, the frames processed
VideoAppendProcessed ==
    /\ v_pc = "append"
    /\ lists' = ListAppend(v_ref, VideoRecord(v_idx))
    /\ v_pc' = "result"
    /\ UNCHANGED <<v_running, v_sig, vidRunVars, vidTabVars>>
    /\ UNCHANGED <<detection_history, current_frame, results, histTabVars,
                   exceptVid, nruns, extVars>>

\* VideoDetectionWorker.run, self.detector.detection_history.append(...):
\* the call; "frames" is the frame count the source reported
VideoAppend ==
    /\ v_pc = "append"
    /\ lists' = ListAppend(v_ref, VideoRecord(v_src.frame_count))
    /\ v_pc' = "result"
    /\ UNCHANGED <<v_running, v_sig, vidRunVars, vidTabVars>>
    /\ UNCHANGED <<detection_history, current_frame, results, histTabVars,
                   exceptVid, nruns, extVars>>

\* VideoDetectionWorker.run: signals.result.emit
VideoEmitResult ==
    /\ v_pc = "result"
    /\ v_sig' = Append(v_sig, <<"result", Len(v_written)>>)
    /\ v_pc' = "finally"
    /\ UNCHANGED <<v_running, vidRunVars, vidTabVars>>
    /\ UNCHANGED <<detVars, histTabVars, exceptVid, nruns, extVars>>

\* the error handler of a run() without the finally clause: run() returns
\* after the error signal
VideoEmitErrorNoFinally ==
    /\ v_pc = "except"
    /\ v_sig' = Append(v_sig, <<"error", 0>>)
    /\ v_pc' = "done"
    /\ UNCHANGED <<v_running, vidRunVars, vidTabVars>>
    /\ UNCHANGED <<detVars, histTabVars, exceptVid, nruns, extVars>>

\* VideoDetectionWorker.run: except Exception: signals.error.emit
VideoEmitError ==
    /\ v_pc = "except"
    /\ v_sig' = Append(v_sig, <<"error", 0>>)
    /\ v_pc' = "finally"
    /\ UNCHANGED <<v_running, vidRunVars, vidTabVars>>
    /\ UNCHANGED <<detVars, histTabVars, exceptVid, nruns, extVars>>

\* VideoDetectionWorker.run: finally: signals.finished.emit
VideoEmitFinished ==
    /\ v_pc = "finally"
    /\ v_sig' = Append(v_sig, <<"finished", 0>>)
    /\ v_pc' = "done"
    /\ UNCHANGED <<v_running, vidRunVars, vidTabVars>>
    /\ UNCHANGED <<detVars, histTabVars, exceptVid, nruns, extVars>>

\* The UI thread delivers the next queued signal of the video worker to
\* its slot: update_progress, detection_complete, detection_error or
\* detection_finished
VideoSlot ==
    /\ SlotsRun
    /\ v_seen < Len(v_sig)
    /\ LET s == v_sig[v_seen + 1][1] IN
          IF s = "finished"
          THEN \* detection_finished; the worker object is dropped
               /\ v_detect_btn' = TRUE
               /\ v_stop_btn' = FALSE
               /\ v_worker' = FALSE
               /\ v_pc' = "idle"
               /\ v_running' = FALSE
               /\ v_src' = NoSource
               /\ v_idx' = 0
               /\ v_written' = <<>>
               /\ v_cap' = "none"
               /\ v_out' = "none"
               /\ v_ref' = 0
               /\ v_exit' = "none"
               /\ v_sig' = <<>>
               /\ v_seen' = 0
               /\ v_stop_idx' = -1
               /\ UNCHANGED <<v_save_btn, current_frame>>
          ELSE \* update_progress, detection_complete or detection_error
               /\ current_frame' =
                     IF s = "progress" THEN "video_annotated" ELSE current_frame
               /\ v_save_btn' = IF s = "result" THEN TRUE ELSE v_save_btn
               /\ v_seen' = v_seen + 1
               /\ UNCHANGED <<v_detect_btn, v_stop_btn, v_worker, v_pc,
                              v_running, v_sig, vidRunVars, v_stop_idx>>
    /\ UNCHANGED <<v_file, ctorVars, saveVars>>
    /\ UNCHANGED <<lists, detection_history, results, histTabVars, exceptVid,
                   nruns>>

(* ---- webcam tab and WebcamDetectionThread ---- *)

\* the value of the thread's camera fields while no capture is open
NoCamera == [opens |-> FALSE, fails |-> FALSE, nframes |-> 0]

WebcamInit ==
    /\ w_pc = "none"
    /\ w_running = FALSE
    /\ w_cam = NoCamera
    /\ w_count = 0
    /\ w_cap = "none"
    /\ w_ref = 0
    /\ w_pending = 0
    /\ w_err = FALSE
    /\ w_active = FALSE
    /\ w_thread = FALSE
    /\ w_waiting = FALSE
    /\ w_start_btn = TRUE
    /\ w_stop_btn = FALSE

\* frame counters of a camera that never fails are kept within the model
\* by counting "MaxFrames + 1 or more" as one value
Count(n) == IF n > MaxFrames THEN MaxFrames + 1 ELSE n

\* the thread's run() has returned or ended with an exception
WebcamThreadFinished == w_pc \in {"exited", "crashed"}

\* WebcamDetectionTab.start_detection
WebcamStart ==
    /\ UserActs
    /\ ~w_active
    /\ nruns < MaxRuns
    /\ nruns' = nruns + 1
    /\ UNCHANGED extVars
    /\ w_start_btn' = FALSE
    /\ w_stop_btn' = TRUE
    /\ w_thread' = TRUE
    /\ w_running' = FALSE
    /\ w_pc' = "begin"
    /\ w_active' = TRUE
    /\ UNCHANGED <<w_pending, w_err, w_waiting, camRunVars>>
    /\ UNCHANGED <<detVars, histTabVars, exceptCam>>

\* WebcamDetectionThread.run: self.running = True
WebcamSetRunning ==
    /\ w_pc = "begin"
    /\ w_running' = TRUE
    /\ w_pc' = "open"
    /\ UNCHANGED <<w_pending, w_err, w_waiting, camRunVars, camTabVars>>
    /\ UNCHANGED <<detVars, histTabVars, exceptCam, nruns, extVars>>

\* the open step without the isOpened() test: the loop is entered with a
\* camera that did not open (every read of it fails)
WebcamOpenUnchecked ==
    /\ w_pc = "open"
    /\ \E cam \in Cameras :
          /\ w_cam' = IF cam.opens THEN cam
                      ELSE [opens |-> FALSE, fails |-> TRUE, nframes |-> 0]
          /\ w_cap' = "open"
          /\ w_count' = 0
          /\ w_pc' = "loop"
    /\ UNCHANGED <<w_err, w_running, w_pending, w_waiting, w_ref, camTabVars>>
    /\ UNCHANGED <<detVars, histTabVars, exceptCam, nruns, extVars>>

\* WebcamDetectionThread.run: the camera is opened; when it does not open
\* the error signal is emitted, running is reset and run() returns
WebcamOpen ==
    /\ w_pc = "open"
    /\ \E cam \in Cameras :
          IF cam.opens
          THEN /\ w_cam' = cam
               /\ w_cap' = "open"
               /\ w_count' = 0
               /\ w_pc' = "loop"
               /\ UNCHANGED <<w_err, w_running>>
          ELSE /\ w_err' = TRUE
               /\ w_running' = FALSE
               /\ w_pc' = "exited"
               /\ UNCHANGED <<w_cam, w_cap, w_count>>
    /\ UNCHANGED <<w_pending, w_waiting, w_ref, camTabVars>>
    /\ UNCHANGED <<detVars, histTabVars, exceptCam, nruns, extVars>>

\* WebcamDetectionThread.run: while self.running
WebcamLoopTest ==
    /\ w_pc = "loop"
    /\ w_pc' = IF w_running THEN "frame" ELSE "release"
    /\ UNCHANGED <<w_running, w_pending, w_err, w_waiting, camRunVars,
                   camTabVars>>
    /\ UNCHANGED <<detVars, histTabVars, exceptCam, nruns, extVars>>

\* WebcamDetectionThread.run, one iteration of the loop body: read, infer,
\* emit frame_ready.  An exception of the inference call is not caught in
\* run(): it ends the thread.
WebcamFrame ==
    /\ w_pc = "frame"
    /\ \/ /\ w_cam.fails
          /\ w_count >= w_cam.nframes
          /\ w_pc' = "release"
          /\ UNCHANGED <<w_count, w_pending>>
       \/ /\ ~(w_cam.fails /\ w_count >= w_cam.nframes)
          /\ w_pc' = "crashed"
          /\ UNCHANGED <<w_count, w_pending>>
       \/ /\ ~(w_cam.fails /\ w_count >= w_cam.nframes)
          /\ w_pending' = Count(w_pending + 1)
          /\ w_count' = Count(w_count + 1)
          /\ w_pc' = "loop"
    /\ UNCHANGED <<w_running, w_err, w_waiting, w_cam, w_cap, w_ref,
                   camTabVars>>
    /\ UNCHANGED <<detVars, histTabVars, exceptCam, nruns, extVars>>

\* WebcamDetectionThread.run: cap.release(), and the test "frame_count > 0"
WebcamRelease ==
    /\ w_pc = "release"
    /\ w_cap' = "released"
    /\ w_pc' = IF w_count > 0 THEN "load" ELSE "exited"
    /\ UNCHANGED <<w_running, w_pending, w_err, w_waiting, w_cam, w_count,
                   w_ref, camTabVars>>
    /\ UNCHANGED <<detVars, histTabVars, exceptCam, nruns, extVars>>

\* WebcamDetectionThread.run, self.detector.detection_history.append(...):
\* the attribute load
WebcamLoadHistory ==
    /\ w_pc = "load"
    /\ w_ref' = detection_history
    /\ w_pc' = "append"
    /\ UNCHANGED <<w_running, w_pending, w_err, w_waiting, w_cam, w_count,
                   w_cap, camTabVars>>
    /\ UNCHANGED <<detVars, histTabVars, exceptCam, nruns, extVars>>

\* WebcamDetectionThread.run, self.detector.detection_history.append(...):
\* the call; run() returns
WebcamAppend ==
    /\ w_pc = "append"
    /\ lists' = ListAppend(w_ref, WebcamRecord(w_count))
    /\ w_pc' = "exited"
    /\ UNCHANGED <<w_running, w_pending, w_err, w_waiting, camRunVars,
                   camTabVars>>
    /\ UNCHANGED <<detection_history, current_frame, results, histTabVars,
                   exceptCam, nruns, extVars>>

\* WebcamDetectionTab.stop_detection up to detection_thread.wait():
\* thread.stop() resets running and the UI thread blocks in wait()
StopDetection ==
    /\ w_running' = FALSE
    /\ w_waiting' = TRUE
    /\ UNCHANGED <<w_pc, camRunVars, camTabVars>>

\* the stop button: WebcamDetectionTab.stop_detection
WebcamStop ==
    /\ UserActs
    /\ w_active
    /\ StopDetection
    /\ UNCHANGED <<w_pending, w_err>>
    /\ UNCHANGED <<detVars, histTabVars, exceptCam, nruns, extVars>>

\* WebcamDetectionTab.stop_detection after wait() has returned: the thread
\* is dropped and the tab is re-armed
WebcamStopped ==
    /\ w_waiting
    /\ WebcamThreadFinished
    /\ w_waiting' = FALSE
    /\ w_thread' = FALSE
    /\ w_active' = FALSE
    /\ w_start_btn' = TRUE
    /\ w_stop_btn' = FALSE
    /\ w_pc' = "none"
    /\ w_running' = FALSE
    /\ w_cam' = NoCamera
    /\ w_count' = 0
    /\ w_cap' = "none"
    /\ w_ref' = 0
    /\ UNCHANGED <<w_pending, w_err>>
    /\ UNCHANGED <<detVars, histTabVars, exceptCam, nruns, extVars>>

\* WebcamDetectionTab.update_frame, the slot of frame_ready
WebcamFrameSlot ==
    /\ SlotsRun
    /\ w_pending > 0
    /\ w_pending' = w_pending - 1
    /\ current_frame' = "webcam_annotated"
    /\ UNCHANGED <<w_pc, w_running, w_err, w_waiting, camRunVars, camTabVars>>
    /\ UNCHANGED <<lists, detection_history, results, histTabVars, exceptCam,
                   nruns, extVars>>

\* WebcamDetectionTab.detection_error, the slot of error: the message, then
\* stop_detection()
WebcamErrorSlot ==
    /\ SlotsRun
    /\ w_err
    /\ w_err' = FALSE
    /\ IF w_active
       THEN StopDetection
       ELSE UNCHANGED <<w_running, w_waiting, w_pc, camRunVars, camTabVars>>
    /\ UNCHANGED w_pending
    /\ UNCHANGED <<detVars, histTabVars, exceptCam, nruns, extVars>>

(* ---- direct calls of HandSignDetector.detect_video / detect_webcam ---- *)

ApiInit ==
    /\ a_pc = "idle"
    /\ a_outpath = FALSE
    /\ a_cb = FALSE
    /\ a_stopsig = FALSE
    /\ a_src = NoSource
    /\ a_cam = NoCamera
    /\ a_idx = 0
    /\ a_cap = "none"
    /\ a_wr = "none"
    /\ a_written = <<>>
    /\ a_ref = 0
    /\ a_ret = "none"
    /\ a_calls = <<>>
    /\ a_stopped = FALSE

\* the locals of a call, as a new call finds them
ApiFresh ==
    /\ a_src' = NoSource
    /\ a_cam' = NoCamera
    /\ a_idx' = 0
    /\ a_cap' = "none"
    /\ a_wr' = "none"
    /\ a_written' = <<>>
    /\ a_ref' = 0
    /\ a_calls' = <<>>
    /\ a_stopped' = FALSE

\* frame_idx / frame_count * 100, the float handed to progress_callback,
\* kept as the fraction <<numerator, denominator>>
ProgressValue(frame_idx, frame_count) == <<frame_idx * 100, frame_count>>

\* detect_video(video_path, output_path, progress_callback) is called
DetectVideoCall ==
    /\ a_pc = "idle"
    /\ nruns < MaxRuns
    /\ nruns' = nruns + 1
    /\ UNCHANGED extVars
    /\ a_outpath' \in BOOLEAN
    /\ a_cb' \in BOOLEAN
    /\ a_stopsig' = FALSE
    /\ a_ret' = "none"
    /\ a_pc' = "v_open"
    /\ ApiFresh
    /\ UNCHANGED <<detVars, histTabVars, exceptApi>>

\* detect_video: the file check, the capture and the writer
DetectVideoOpen ==
    /\ a_pc = "v_open"
    /\ \E exists \in BOOLEAN, src \in VideoSources :
          IF exists /\ src.opens
          THEN /\ a_src' = src
               /\ a_cap' = "open"
               /\ a_wr' = IF a_outpath THEN "open" ELSE "none"
               /\ fs' = IF a_outpath THEN fs \cup {"output_dir", "video_out"}
                                     ELSE fs
               /\ a_pc' = "v_frame"
               /\ UNCHANGED a_ret
          ELSE /\ a_ret' = "raised"
               /\ a_pc' = "idle"
               /\ UNCHANGED <<a_src, a_cap, a_wr, fs>>
    /\ UNCHANGED <<apiArgVars, a_cam, a_idx, a_written, a_ref, a_calls,
                   a_stopped>>
    /\ UNCHANGED <<detVars, ui, x_ref, csv_rows, x_ret, exceptApi, nruns, extVars>>

\* detect_video, one iteration of "while cap.isOpened()": read, infer,
\* write, the two stores, progress
DetectVideoFrame ==
    /\ a_pc = "v_frame"
    /\ \/ /\ a_idx = a_src.nframes
          /\ a_pc' = "v_release"
          /\ UNCHANGED <<a_idx, a_written, a_calls, a_ret, current_frame,
                         results>>
       \/ /\ a_idx < a_src.nframes
          /\ a_ret' = "raised"
          /\ a_pc' = "idle"
          /\ UNCHANGED <<a_idx, a_written, a_calls, current_frame, results>>
       \/ /\ a_idx < a_src.nframes
          /\ a_written' = IF a_outpath THEN Append(a_written, a_idx + 1)
                                       ELSE a_written
          /\ current_frame' = "video_annotated"
          /\ results' = "video"
          /\ a_idx' = a_idx + 1
          /\ IF a_src.frame_count = 0
             THEN /\ a_ret' = "raised"
                  /\ a_pc' = "idle"
                  /\ UNCHANGED a_calls
             ELSE /\ a_calls' =
                        IF a_cb
                        THEN Append(a_calls,
                                    ProgressValue(a_idx + 1, a_src.frame_count))
                        ELSE a_calls
                  /\ a_pc' = "v_frame"
                  /\ UNCHANGED a_ret
    /\ UNCHANGED <<apiArgVars, a_src, a_cam, a_cap, a_wr, a_ref, a_stopped>>
    /\ UNCHANGED <<lists, detection_history, histTabVars, exceptApi, nruns, extVars>>

\* detect_video: cap.release() and, with an output path, out.release()
DetectVideoRelease ==
    /\ a_pc = "v_release"
    /\ a_cap' = "released"
    /\ a_wr' = IF a_outpath THEN "released" ELSE a_wr
    /\ a_pc' = "v_load"
    /\ UNCHANGED <<apiArgVars, a_ret, a_src, a_cam, a_idx, a_written, a_ref,
                   a_calls, a_stopped>>
    /\ UNCHANGED <<detVars, histTabVars, exceptApi, nruns, extVars>>

\* detect_video, self.detection_history.append(...): the attribute load
DetectVideoLoadHistory ==
    /\ a_pc = "v_load"
    /\ a_ref' = detection_history
    /\ a_pc' = "v_append"
    /\ UNCHANGED <<apiArgVars, a_ret, a_src, a_cam, a_idx, a_cap, a_wr,
                   a_written, a_calls, a_stopped>>
    /\ UNCHANGED <<detVars, histTabVars, exceptApi, nruns, extVars>>

\* detect_video, self.detection_history.append(...): the call, and return
DetectVideoAppend ==
    /\ a_pc = "v_append"
    /\ lists' = ListAppend(a_ref, VideoRecord(a_src.frame_count))
    /\ a_ret' = "returned"
    /\ a_pc' = "idle"
    /\ UNCHANGED <<apiArgVars, apiRunVars>>
    /\ UNCHANGED <<detection_history, current_frame, results, histTabVars,
                   exceptApi, nruns, extVars>>

\* detect_webcam(cam_id, stop_signal, frame_callback) is called
DetectWebcamCall ==
    /\ a_pc = "idle"
    /\ nruns < MaxRuns
    /\ nruns' = nruns + 1
    /\ UNCHANGED extVars
    /\ a_outpath' = FALSE
    /\ a_cb' \in BOOLEAN
    /\ a_stopsig' \in BOOLEAN
    /\ a_ret' = "none"
    /\ a_pc' = "w_open"
    /\ ApiFresh
    /\ UNCHANGED <<detVars, histTabVars, exceptApi>>

\* detect_webcam: the camera is opened
DetectWebcamOpen ==
    /\ a_pc = "w_open"
    /\ \E cam \in Cameras :
          IF cam.opens
          THEN /\ a_cam' = cam
               /\ a_cap' = "open"
               /\ a_pc' = "w_test"
               /\ UNCHANGED a_ret
          ELSE /\ a_ret' = "raised"
               /\ a_pc' = "idle"
               /\ UNCHANGED <<a_cam, a_cap>>
    /\ UNCHANGED <<apiArgVars, a_src, a_idx, a_wr, a_written, a_ref, a_calls,
                   a_stopped>>
    /\ UNCHANGED <<detVars, histTabVars, exceptApi, nruns, extVars>>

\* detect_webcam with the test of stop_signal left out: the loop goes on to
\* the next frame whatever stop_signal returns
DetectWebcamTestIgnored ==
    /\ a_pc = "w_test"
    /\ \E stop \in BOOLEAN :
          /\ a_stopsig \/ ~stop
          /\ a_stopped' = stop
          /\ a_pc' = "w_frame"
    /\ UNCHANGED <<apiArgVars, a_ret, a_src, a_cam, a_idx, a_cap, a_wr,
                   a_written, a_ref, a_calls>>
    /\ UNCHANGED <<detVars, histTabVars, exceptApi, nruns, extVars>>

\* detect_webcam: "if stop_signal and stop_signal(): break"; what the
\* caller's stop_signal returns is an input
DetectWebcamTest ==
    /\ a_pc = "w_test"
    /\ \E stop \in BOOLEAN :
          /\ a_stopsig \/ ~stop
          /\ a_stopped' = stop
          /\ a_pc' = IF stop THEN "w_release" ELSE "w_frame"
    /\ UNCHANGED <<apiArgVars, a_ret, a_src, a_cam, a_idx, a_cap, a_wr,
                   a_written, a_ref, a_calls>>
    /\ UNCHANGED <<detVars, histTabVars, exceptApi, nruns, extVars>>

\* detect_webcam, the rest of one iteration: read, infer, the two stores,
\* frame_callback, frame_count += 1
DetectWebcamFrame ==
    /\ a_pc = "w_frame"
    /\ \/ /\ a_cam.fails
          /\ a_idx >= a_cam.nframes
          /\ a_pc' = "w_release"
          /\ UNCHANGED <<a_idx, a_calls, a_ret, current_frame, results>>
       \/ /\ ~(a_cam.fails /\ a_idx >= a_cam.nframes)
          /\ a_ret' = "raised"
          /\ a_pc' = "idle"
          /\ UNCHANGED <<a_idx, a_calls, current_frame, results>>
       \/ /\ ~(a_cam.fails /\ a_idx >= a_cam.nframes)
          /\ current_frame' = "webcam_annotated"
          /\ results' = "webcam"
          /\ a_calls' = IF a_cb /\ Len(a_calls) <= MaxFrames
                        THEN Append(a_calls, <<Count(a_idx + 1), 1>>)
                        ELSE a_calls
          /\ a_idx' = Count(a_idx + 1)
          /\ a_pc' = "w_test"
          /\ UNCHANGED a_ret
    /\ UNCHANGED <<apiArgVars, a_src, a_cam, a_cap, a_wr, a_written, a_ref,
                   a_stopped>>
    /\ UNCHANGED <<lists, detection_history, histTabVars, exceptApi, nruns, extVars>>

\* detect_webcam: cap.release()
DetectWebcamRelease ==
    /\ a_pc = "w_release"
    /\ a_cap' = "released"
    /\ a_pc' = "w_load"
    /\ UNCHANGED <<apiArgVars, a_ret, a_src, a_cam, a_idx, a_wr, a_written,
                   a_ref, a_calls, a_stopped>>
    /\ UNCHANGED <<detVars, histTabVars, exceptApi, nruns, extVars>>

\* detect_webcam, self.detection_history.append(...): the attribute load
DetectWebcamLoadHistory ==
    /\ a_pc = "w_load"
    /\ a_ref' = detection_history
    /\ a_pc' = "w_append"
    /\ UNCHANGED <<apiArgVars, a_ret, a_src, a_cam, a_idx, a_cap, a_wr,
                   a_written, a_calls, a_stopped>>
    /\ UNCHANGED <<detVars, histTabVars, exceptApi, nruns, extVars>>

\* detect_webcam, self.detection_history.append(...): the call, and return
DetectWebcamAppend ==
    /\ a_pc = "w_append"
    /\ lists' = ListAppend(a_ref, WebcamRecord(a_idx))
    /\ a_ret' = "returned"
    /\ a_pc' = "idle"
    /\ UNCHANGED <<apiArgVars, apiRunVars>>
    /\ UNCHANGED <<detection_history, current_frame, results, histTabVars,
                   exceptApi, nruns, extVars>>

\* a direct call of utils.export_detection_history with the detector's
\* history, whatever it holds
ExportCall ==
    /\ UserActs
    /\ LET r == ExportDetectionHistory(History, fs) IN
          /\ fs' = r.fs
          /\ csv_rows' = IF r.rows >= 0 THEN r.rows ELSE csv_rows
          /\ x_ret' = IF r.ok THEN "True" ELSE "False"
    /\ UNCHANGED <<ui, x_ref>>
    /\ UNCHANGED <<detVars, workerVars, nruns, extVars>>

(* ---- the application ---- *)

Init ==
    /\ DetectorInit
    /\ HistoryTabInit
    /\ ImageInit
    /\ VideoInit
    /\ WebcamInit
    /\ ApiInit
    /\ nruns = 0
    /\ Constructed
    /\ SaveInit

ImageActions ==
    \/ SelectImage
    \/ ImageStart
    \/ ImageRead
    \/ ImageInfer
    \/ ImageLoadHistory
    \/ ImageAppend
    \/ ImageEmitResult
    \/ ImageEmitError
    \/ ImageEmitFinished
    \/ ImageSlot

ClearActions ==
    \/ ClearHistoryEmpty
    \/ ClearHistoryAsk
    \/ ClearHistoryAnswer
    \/ DismissMessage

ExportActions ==
    \/ ExportHistoryEmpty
    \/ ExportHistoryAsk
    \/ ExportHistoryAnswer

HistoryActions ==
    \/ ClearActions
    \/ ExportActions

VideoActions ==
    \/ SelectVideo
    \/ VideoStart
    \/ VideoStop
    \/ VideoOpen
    \/ VideoLoopTest
    \/ VideoFrame
    \/ VideoRelease
    \/ VideoLoadHistory
    \/ VideoAppend
    \/ VideoEmitResult
    \/ VideoEmitError
    \/ VideoEmitFinished
    \/ VideoSlot

WebcamActions ==
    \/ WebcamStart
    \/ WebcamSetRunning
    \/ WebcamOpen
    \/ WebcamLoopTest
    \/ WebcamFrame
    \/ WebcamRelease
    \/ WebcamLoadHistory
    \/ WebcamAppend
    \/ WebcamStop
    \/ WebcamStopped
    \/ WebcamFrameSlot
    \/ WebcamErrorSlot

DetectVideoActions ==
    \/ DetectVideoCall
    \/ DetectVideoOpen
    \/ DetectVideoFrame
    \/ DetectVideoRelease
    \/ DetectVideoLoadHistory
    \/ DetectVideoAppend

DetectWebcamActions ==
    \/ DetectWebcamCall
    \/ DetectWebcamOpen
    \/ DetectWebcamTest
    \/ DetectWebcamFrame
    \/ DetectWebcamRelease
    \/ DetectWebcamLoadHistory
    \/ DetectWebcamAppend

\* the application as main.py runs it: the three detection tabs and the
\* history tab on one detector.  The export of the history tab reads the
\* log and writes files only; it runs with the image path below.
Next ==
    \/ ImageActions
    \/ VideoActions
    \/ WebcamActions
    \/ ClearActions

Spec == Init /\ [][Next]_vars

\* the image path: the image tab and its worker, the history tab, and
\* direct calls of the export function
NextImage ==
    \/ ImageActions
    \/ HistoryActions
    \/ ExportCall

SpecImage == Init /\ [][NextImage]_vars

\* the video path: the video tab and its worker, direct calls of
\* detect_video, and the clearing of the history
NextVideo ==
    \/ VideoActions
    \/ DetectVideoActions
    \/ ClearActions

SpecVideo == Init /\ [][NextVideo]_vars

\* the webcam path: the webcam tab and its thread, direct calls of
\* detect_webcam, and the clearing of the history
NextWebcam ==
    \/ WebcamActions
    \/ DetectWebcamActions
    \/ ClearActions

SpecWebcam == Init /\ [][NextWebcam]_vars

(* ---- saving the current frame ---- *)

\* ImageDetectionTab.save_result, the save button of the image tab: the
\* default path, the file dialog (cancelled, or a path is chosen) and
\* detector.save_current_frame on the path
ImageSaveResult ==
    /\ UserActs
    /\ i_save_btn
    /\ IF current_frame = "None"
       THEN UNCHANGED <<fs, saveVars>>
       ELSE \E cancelled \in BOOLEAN, dir \in SaveDirs, wr \in WriteOutcomes :
               IF cancelled
               THEN /\ fs' = GetDefaultSavePath(fs)
                    /\ UNCHANGED saveVars
               ELSE LET r == SaveCurrentFrame(current_frame,
                                              GetDefaultSavePath(fs), dir, wr)
                    IN  /\ fs' = r.fs
                        /\ saved' = IF r.wrote THEN current_frame ELSE saved
                        /\ s_ret' = r.ret
    /\ UNCHANGED <<ui, x_ref, csv_rows, x_ret>>
    /\ UNCHANGED <<detVars, workerVars, nruns, v_stop_idx, ctorVars>>

(* ---- closing the window ---- *)

\* VideoDetectionTab.stop_detection as closeEvent calls it: the flag of the
\* current worker, if there is one, is reset; nothing is waited for
StopVideoWorker ==
    IF v_worker
    THEN /\ v_running' = FALSE
         /\ v_stop_idx' = IF v_stop_idx = -1 THEN v_idx ELSE v_stop_idx
    ELSE UNCHANGED <<v_running, v_stop_idx>>

\* MainWindow.closeEvent: webcam_tab.stop_detection(), which blocks in
\* wait() when a webcam run is active, then video_tab.stop_detection();
\* the image tab is not called
CloseEvent ==
    /\ UserActs
    /\ IF w_active
       THEN /\ StopDetection
            /\ ui' = "closing"
            /\ UNCHANGED <<v_running, v_stop_idx>>
       ELSE /\ StopVideoWorker
            /\ ui' = "closed"
            /\ UNCHANGED <<w_pc, w_running, w_waiting, camRunVars, camTabVars>>
    /\ UNCHANGED <<w_pending, w_err>>
    /\ UNCHANGED <<v_pc, v_sig, vidRunVars, vidTabVars>>
    /\ UNCHANGED <<fs, x_ref, csv_rows, x_ret>>
    /\ UNCHANGED <<detVars, imgVars, apiVars, nruns, ctorVars, saveVars>>

\* MainWindow.closeEvent after the webcam tab's wait() has returned:
\* video_tab.stop_detection(), then the base class closes the window
CloseEventResumes ==
    /\ ui = "closing"
    /\ ~w_waiting
    /\ StopVideoWorker
    /\ ui' = "closed"
    /\ UNCHANGED <<v_pc, v_sig, vidRunVars, vidTabVars>>
    /\ UNCHANGED <<fs, x_ref, csv_rows, x_ret>>
    /\ UNCHANGED <<detVars, imgVars, camVars, apiVars, nruns, ctorVars, saveVars>>

\* the three detection tabs and the closing of the window
NextClose ==
    \/ ImageActions
    \/ VideoActions
    \/ WebcamActions
    \/ CloseEvent
    \/ CloseEventResumes

SpecClose == Init /\ [][NextClose]_vars

\* the image tab with its save button and the video tab on the shared
\* detector, and direct calls of save_current_frame
NextSave ==
    \/ ImageActions
    \/ VideoActions
    \/ ImageSaveResult
    \/ SaveCurrentFrameCall

SpecSave == Init /\ [][NextSave]_vars

\* the application from its start: the detector is constructed first, then
\* the image tab and the history tab are used
InitStartup ==
    /\ DetectorInit
    /\ ImageInit
    /\ VideoInit
    /\ WebcamInit
    /\ ApiInit
    /\ nruns = 0
    /\ fs = {}
    /\ ui = "starting"
    /\ x_ref = 0
    /\ csv_rows = -1
    /\ x_ret = "none"
    /\ SaveInit
    /\ model = "unset"
    /\ model_path \in PathStates
    /\ default_ok \in BOOLEAN

NextStartup ==
    \/ ConstructDetector
    \/ ImageActions
    \/ HistoryActions

SpecStartup == InitStartup /\ [][NextStartup]_vars

(* ---- scheduling ---- *)

\* the steps of ImageDetectionWorker.run on its pool thread
ImageWorkerSteps ==
    \/ ImageRead
    \/ ImageInfer
    \/ ImageLoadHistory
    \/ ImageAppend
    \/ ImageEmitResult
    \/ ImageEmitError
    \/ ImageEmitFinished

\* the steps of VideoDetectionWorker.run on its pool thread
VideoWorkerSteps ==
    \/ VideoOpen
    \/ VideoLoopTest
    \/ VideoFrame
    \/ VideoRelease
    \/ VideoLoadHistory
    \/ VideoAppend
    \/ VideoEmitResult
    \/ VideoEmitError
    \/ VideoEmitFinished

\* the steps of WebcamDetectionThread.run on its thread
WebcamThreadSteps ==
    \/ WebcamSetRunning
    \/ WebcamOpen
    \/ WebcamLoopTest
    \/ WebcamFrame
    \/ WebcamRelease
    \/ WebcamLoadHistory
    \/ WebcamAppend

\* The operating system schedules every started thread, so a worker that
\* can take a step eventually takes one; the event loop of the UI thread
\* delivers every queued signal to its slot, and QThread.wait() returns
\* once the thread has finished.  Nothing makes the user click or answer.
Fairness ==
    /\ WF_vars(ImageWorkerSteps)
    /\ WF_vars(VideoWorkerSteps)
    /\ WF_vars(WebcamThreadSteps)
    /\ WF_vars(ImageSlot)
    /\ WF_vars(VideoSlot)
    /\ WF_vars(WebcamFrameSlot)
    /\ WF_vars(WebcamErrorSlot)
    /\ WF_vars(WebcamStopped)

\* the three detection tabs and their workers, under that scheduling
NextTabs ==
    \/ ImageActions
    \/ VideoActions
    \/ WebcamActions

SpecLive == Init /\ [][NextTabs]_vars /\ Fairness

\* the three detection tabs on the shared detector, the history never
\* cleared
SpecTabs == Init /\ [][NextTabs]_vars

\* the image and the video tab and their workers, under that scheduling
NextWorkers ==
    \/ ImageActions
    \/ VideoActions

SpecWorkersLive == Init /\ [][NextWorkers]_vars /\ Fairness

\* the webcam tab and its thread alone, under that scheduling
SpecWebcamLive == Init /\ [][WebcamActions]_vars /\ Fairness

(* ---- the claims ---- *)

Last(q) == q[Len(q)]

\* the history log after the step is the log before it with rec at its end
Appended(rec) == History' = Append(History, rec)

\* C1: every successful image run appends exactly one record of kind
\* "image" to the history log, so that the log grows by exactly one, and
\* the record's detection count is the number of boxes the inference
\* returned.  (The step of a successful run that appends is ImageAppend.)
C1_ImageRunGrowsLog ==
    [][ImageAppend => Appended(ImageRecord(i_boxes))]_vars

\* C2, as claimed: the record appended by a video run that ended at
\* end-of-stream holds the number of frames the loop read and processed.
C2_RecordHoldsFramesProcessed ==
    [][/\ (VideoAppend /\ v_exit = "eos")
             => Last(lists'[v_ref]).count = v_idx
       /\ DetectVideoAppend => Last(lists'[a_ref]).count = a_idx]_vars

\* C2, amended: the record appended by a video run that ended at
\* end-of-stream is of kind "video" and holds the frame count the source
\* reported when it was opened; that is the number of frames the loop read
\* and processed exactly when the source delivers as many frames as it
\* reports.
C2_RecordHoldsReportedCount ==
    [][/\ (VideoAppend /\ v_exit = "eos")
             => /\ Len(lists'[v_ref]) = Len(lists[v_ref]) + 1
                /\ Last(lists'[v_ref]) = VideoRecord(v_src.frame_count)
                /\ v_idx = v_src.nframes
                /\ (Last(lists'[v_ref]).count = v_idx
                       <=> v_src.frame_count = v_src.nframes)
       /\ DetectVideoAppend
             => /\ Len(lists'[a_ref]) = Len(lists[a_ref]) + 1
                /\ Last(lists'[a_ref]) = VideoRecord(a_src.frame_count)
                /\ a_idx = a_src.nframes
                /\ (Last(lists'[a_ref]).count = a_idx
                       <=> a_src.frame_count = a_src.nframes)]_vars

\* C2, its case: a worker run that read every frame of a source reporting
\* another count has appended its record, and so has a direct call
C2_Witness ==
    /\ v_pc = "result"
    /\ v_exit = "eos"
    /\ v_idx > 0
    /\ v_src.frame_count # v_src.nframes
    /\ Last(lists[v_ref]) = VideoRecord(v_src.frame_count)
    /\ a_ret = "returned"
    /\ a_src.opens

\* C3: a video run stopped by the flag before end-of-stream still appends
\* one record to the history log, and the record holds the frame count of
\* the source, not the number of frames processed before the stop.
C3_StoppedRunAppendsTotal ==
    [][(VideoAppend /\ v_exit = "stop")
          => Appended(VideoRecord(v_src.frame_count))]_vars

\* C4: once a video run stopped by the flag has left its loop and released
\* its resources, the output holds exactly the frames processed before the
\* stop, in source order, no more than the source has, and the writer is
\* released.
C4_StoppedOutputIsPrefix ==
    (v_exit = "stop" /\ v_pc \in {"load", "append", "result", "finally", "done"})
       => /\ v_written = [k \in 1..v_idx |-> k]
          /\ Len(v_written) <= v_src.nframes
          /\ v_out = "released"
          /\ v_cap = "released"

\* C4, its case: a run stopped after its first frame, with frames left
C4_Witness ==
    /\ v_exit = "stop"
    /\ v_pc = "done"
    /\ v_written = <<1>>
    /\ v_src.nframes > 1

\* C5: clear on an empty log changes nothing of the detector, asks for no
\* confirmation and shows the "already empty" message.
C5_ClearEmptyIsNoOp ==
    [][/\ (UserActs /\ Len(History) = 0) => ui' # "clear_confirm"
       /\ ClearHistoryEmpty
             => /\ ui' = "msg_already_empty"
                /\ History' = <<>>
                /\ UNCHANGED detVars]_vars

\* C5, its case: the "already empty" message is shown on an empty log
C5_Witness == ui = "msg_already_empty" /\ Len(History) = 0

\* C6: export_history on an empty log reports the failure and creates
\* nothing; export_detection_history on an empty history returns False
\* and creates nothing; and a file that is written holds at least one
\* record, namely every record the exported list holds at that moment.
C6_ExportEmptyFails ==
    [][/\ (UserActs /\ Len(History) = 0) => ui' # "export_dialog"
       /\ ExportHistoryEmpty
             => /\ ui' = "msg_export_no_data"
                /\ fs' = fs
                /\ csv_rows' = csv_rows
       /\ (ExportCall /\ Len(History) = 0)
             => /\ x_ret' = "False"
                /\ fs' = fs
                /\ csv_rows' = csv_rows
       /\ (ExportCall /\ Len(History) > 0)
             => /\ x_ret' = "True"
                /\ csv_rows' = Len(History)
       /\ ExportHistoryAnswer
             => /\ ui' # "msg_export_failed"
                /\ ui' = "msg_exported"
                      => csv_rows' = Len(lists[x_ref]) /\ csv_rows' > 0
       /\ csv_rows' # 0]_vars

\* C6, its case: a direct export of an empty log has returned False, and
\* the tab has written a file of two records
C6_Witness ==
    /\ ui = "msg_exported"
    /\ x_ret = "False"
    /\ csv_rows = 2

\* C7: when the camera does not open, the webcam run ends at once: the
\* thread emits the error signal, resets running and returns,
\* detect_webcam raises; no frame is processed, no frame_ready signal is
\* emitted and no callback made, and the detector (its history log among
\* the rest) is left as it was.
C7_CameraFailsToOpen ==
    [][/\ (w_pc = "open" /\ w_pc' # "open" /\ ~w_cam'.opens)
             => /\ w_pc' = "exited"
                /\ w_err'
                /\ ~w_running'
                /\ w_count' = 0
                /\ w_pending' = w_pending
                /\ w_cap' = "none"
                /\ UNCHANGED detVars
       /\ (w_pc = "exited" /\ w_cap = "none") => w_pc' \in {"exited", "none"}
       /\ (a_pc = "w_open" /\ a_pc' # "w_open" /\ ~a_cam'.opens)
             => /\ a_pc' = "idle"
                /\ a_ret' = "raised"
                /\ a_idx' = 0
                /\ a_calls' = <<>>
                /\ a_cap' = "none"
                /\ UNCHANGED detVars]_vars

\* C7, its case: the thread and a direct call have both met a camera that
\* does not open
C7_Witness ==
    /\ w_pc = "exited"
    /\ w_cap = "none"
    /\ w_err
    /\ a_pc = "idle"
    /\ a_ret = "raised"
    /\ a_cap = "none"

\* C8: every step leaves the history log as it is, appends one record at
\* its end, or replaces it by the empty log through the confirmed clear;
\* and an append to the log adds its record also when an equal record is
\* in the log already.
C8_LogGrowsOrIsCleared ==
    [][/\ \/ History' = History
          \/ /\ Len(History') = Len(History) + 1
             /\ SubSeq(History', 1, Len(History)) = History
          \/ /\ History' = <<>>
             /\ ui = "clear_confirm"
             /\ ui' = "msg_cleared"
       /\ (ImageAppend /\ i_ref = detection_history)
             => Appended(ImageRecord(i_boxes))
       /\ (VideoAppend /\ v_ref = detection_history)
             => Appended(VideoRecord(v_src.frame_count))
       /\ (WebcamAppend /\ w_ref = detection_history)
             => Appended(WebcamRecord(w_count))]_vars

\* C8, its case: the log holds two equal records
C8_Witness ==
    /\ Len(History) = 2
    /\ History[1] = History[2]

\* C9: every record of kind "webcam" in the history log has a frame count
\* of at least 1.
C9_WebcamRecordHasFrames ==
    \A k \in 1..Len(History) :
       History[k].type = "webcam" => History[k].count >= 1

\* C10: an image run on a missing or unreadable file raises, so that the
\* worker emits the error signal and nothing else before finished, and no
\* step of that run changes the history log, the current frame or the last
\* results.
C10_BadImageFileFails ==
    [][/\ (ImageRead /\ i_file # "ok")
             => /\ i_pc' = "except"
                /\ UNCHANGED detVars
       /\ (i_file # "ok" /\ i_pc \in {"read", "except", "finally"}
              /\ i_pc' # i_pc)
             => /\ UNCHANGED detVars
                /\ i_pc' \in {"except", "finally", "done"}
       /\ (i_file # "ok" /\ i_pc' = "done")
             => i_sig' = << <<"error", 0>>, <<"finished", 0>> >>]_vars

\* C10, its case: a run on an unreadable file has ended, with a record in
\* the log and a frame held from an earlier run
C10_Witness ==
    /\ i_file = "unreadable"
    /\ i_pc = "done"
    /\ Len(History) = 1
    /\ current_frame = "image_raw"

\* C11: once stop() has been called on a video worker, the loop reads,
\* infers and writes at most one further frame: the frame index and the
\* output never get more than one ahead of where they were at the call, and
\* once that one frame is done the worker is not in the loop body again.
C11_AtMostOneFrameAfterStop ==
    v_stop_idx >= 0
       => /\ v_idx <= v_stop_idx + 1
          /\ Len(v_written) <= v_stop_idx + 1
          /\ v_idx = v_stop_idx + 1 => v_pc # "frame"

\* C11, its case: stop() was called before the first frame was done, one
\* frame was processed after the call, and the loop left a frame unread
C11_Witness ==
    /\ v_stop_idx = 0
    /\ v_idx = 1
    /\ v_exit = "stop"
    /\ v_src.nframes = 2

\* C12: whenever stop_detection has called stop() on the webcam thread and
\* waits for it, the wait eventually returns.
C12_StopReturns == w_waiting ~> ~w_waiting

\* the kinds of the signals a run has emitted so far, in order
Kinds(sig) == [k \in 1..Len(sig) |-> sig[k][1]]

\* how many signals of the kinds K a run has emitted
Emitted(sig, K) == Cardinality({k \in 1..Len(sig) : sig[k][1] \in K})

\* progress signals only, then at most one result or error, then at most
\* one finished, which follows the result or error directly
OneOutcome(sig) ==
    /\ Emitted(sig, {"result", "error"}) <= 1
    /\ Emitted(sig, {"finished"}) <= 1
    /\ \A k \in 1..Len(sig) :
          /\ sig[k][1] \in {"result", "error"}
                => \A j \in 1..(k - 1) : sig[j][1] = "progress"
          /\ sig[k][1] = "finished"
                => /\ k = Len(sig)
                   /\ k > 1
                   /\ sig[k - 1][1] \in {"result", "error"}

\* a run that has returned has emitted its outcome and, last, finished
Finished(sig) ==
    /\ Emitted(sig, {"result", "error"}) = 1
    /\ Emitted(sig, {"finished"}) = 1
    /\ Last(sig)[1] = "finished"

\* the signals of a run are only added to, until the finished slot has
\* dropped the worker
Kept(sig, next) ==
    \/ next = sig
    \/ \E x \in {"progress", "result", "error", "finished"} :
          /\ Len(next) = Len(sig) + 1
          /\ SubSeq(next, 1, Len(sig)) = sig
          /\ next[Len(next)][1] = x
    \/ /\ next = <<>>
       /\ Finished(sig)

\* C13: every started image or video worker run eventually has emitted
\* exactly one of result and error and then, as its last signal, exactly
\* one finished; at no moment has a run emitted both, or two errors, or
\* anything after finished; and a signal once emitted (a progress signal
\* before an error among them) stays emitted.
C13_OneOutcomeThenFinished ==
    /\ [](/\ OneOutcome(i_sig)
          /\ OneOutcome(v_sig)
          /\ i_pc = "done" => Finished(i_sig)
          /\ v_pc = "done" => Finished(v_sig))
    /\ [][Kept(i_sig, i_sig') /\ Kept(v_sig, v_sig')]_vars
    /\ (i_pc = "read") ~> (i_pc = "done")
    /\ (v_pc = "open") ~> (v_pc = "done")

\* C13, its case: a video run has ended in an error after a progress
\* signal, and an image run has ended with its result
C13_Witness ==
    /\ v_pc = "done"
    /\ Kinds(v_sig) = <<"progress", "error", "finished">>
    /\ i_pc = "done"
    /\ Kinds(i_sig) = <<"result", "finished">>

\* C14: an exception raised in a worker is caught and signalled: the step
\* that leaves the handler of the image or video worker emits the error
\* signal, and the webcam thread does not end by an exception without the
\* error signal being emitted.
C14_ErrorsAreSignalled ==
    [][/\ (i_pc = "except" /\ i_pc' # "except")
             => /\ Len(i_sig') = Len(i_sig) + 1
                /\ Last(i_sig')[1] = "error"
       /\ (v_pc = "except" /\ v_pc' # "except")
             => /\ Len(v_sig') = Len(v_sig) + 1
                /\ Last(v_sig')[1] = "error"
       /\ (w_pc # "crashed" /\ w_pc' = "crashed") => w_err']_vars

\* a tab is idle and re-armed: start enabled, stop disabled, no worker
ImageRearmed == i_detect_btn /\ i_pc = "idle"
VideoRearmed == v_detect_btn /\ ~v_stop_btn /\ ~v_worker
WebcamRearmed == w_start_btn /\ ~w_stop_btn /\ ~w_active /\ ~w_thread

\* the next read of the camera fails
ReadFails == w_pc = "frame" /\ w_cam.fails /\ w_count >= w_cam.nframes

\* C15: after a run has ended in an error, its tab is eventually idle and
\* re-armed, whatever the user does or does not do: after an exception in
\* the image or the video worker, after the error signal of a camera that
\* does not open, after a camera read that fails, and after an exception in
\* the webcam thread's loop.
C15_ErrorRearmsTab ==
    /\ (i_pc = "except") ~> ImageRearmed
    /\ (v_pc = "except") ~> VideoRearmed
    /\ w_err ~> WebcamRearmed
    /\ ReadFails ~> WebcamRearmed
    /\ (w_pc = "crashed") ~> WebcamRearmed

\* C16: each tab has at most one worker that was started and has not
\* finished: a tab's start is enabled only when its previous worker has
\* finished and was dropped, and every start happens in such a state, also
\* after stop() on a video worker that is still in its loop.
C16_OneWorkerPerTab ==
    /\ [](/\ i_detect_btn => i_pc = "idle"
          /\ v_detect_btn => (v_pc = "idle" /\ ~v_worker)
          /\ w_start_btn => (w_pc = "none" /\ ~w_thread /\ ~w_active))
    /\ [][/\ ImageStart => i_pc = "idle"
          /\ VideoStart => (v_pc = "idle" /\ ~v_worker)
          /\ WebcamStart => (w_pc = "none" /\ ~w_thread)]_vars

\* C16, its case: a stopped video worker is still in its loop body and an
\* image worker is running, and neither tab can be started
C16_Witness ==
    /\ v_pc = "frame"
    /\ v_stop_idx >= 0
    /\ ~v_detect_btn
    /\ i_pc = "infer"
    /\ ~i_detect_btn

\* the outcomes of a video run as the UI is told of them: Completed by the
\* result signal, Failed by the error signal; Stopped is a run whose loop
\* was left because of the stop flag
VideoCompleted == Emitted(v_sig, {"result"}) > 0
VideoFailed == Emitted(v_sig, {"error"}) > 0
VideoStopped == v_exit = "stop"

\* C17: a video run that has ended has exactly one of the outcomes
\* Completed, Failed and Stopped, and a run stopped by the flag is at no
\* time reported by the result signal.
C17_StoppedIsNotCompleted ==
    /\ v_pc = "done"
          => \/ VideoCompleted /\ ~VideoFailed /\ ~VideoStopped
             \/ ~VideoCompleted /\ VideoFailed /\ ~VideoStopped
             \/ ~VideoCompleted /\ ~VideoFailed /\ VideoStopped
    /\ VideoStopped => ~VideoCompleted

\* C18: constructing the detector loads the custom weights exactly when
\* model_path names a file that can be loaded, falls back to the default
\* weights in every other case (no path, no file, a file that cannot be
\* loaded), and raises only when the default weights cannot be loaded.
C18_FallsBackToDefault ==
    [][ConstructDetector
          => model' = IF model_path = "valid" THEN "custom"
                      ELSE IF default_ok THEN "default"
                      ELSE "raised"]_vars

\* the frames that carry the drawn detections
AnnotatedFrames == {"image_annotated", "video_annotated", "webcam_annotated"}

\* C19: after a successful run, detector.current_frame (what
\* save_current_frame writes) is the annotated version of the run's last
\* frame, never the raw input; here for the image run, whose result has
\* been emitted and whose worker has ended.
C19_CurrentFrameIsAnnotated ==
    (i_pc = "done" /\ Emitted(i_sig, {"result"}) > 0)
        => current_frame \in AnnotatedFrames

\* C20: once closeEvent has run, no detection is in progress: the webcam
\* thread has terminated and been dropped, the video worker is no longer
\* reading, inferring or writing a frame, and the image worker is no
\* longer reading or inferring its image.
C20_NothingRunsAfterClose ==
    ui = "closed"
       => /\ w_pc = "none" /\ ~w_thread
          /\ v_pc # "frame"
          /\ i_pc \notin {"read", "infer"}

\* C21: in detect_webcam the stop signal is tested before each read: once
\* it has returned True the call is never again in its read-infer-callback
\* step, the frame count and the calls of frame_callback stay as they were
\* (at zero when the first test already returned True), and the record
\* appended carries that frame count.
C21_StopCheckedBeforeRead ==
    /\ [](a_stopped => a_pc \in {"w_release", "w_load", "w_append", "idle"})
    /\ [][(a_stopped /\ a_pc # "idle")
             => /\ a_idx' = a_idx
                /\ a_calls' = a_calls
                /\ a_stopped']_vars
    /\ [][(a_pc = "w_test" /\ a_stopped')
             => Len(a_calls') = (IF a_cb THEN a_idx' ELSE 0)]_vars

\* C21, its case: a call whose stop_signal returned True at the first test,
\* on a camera that had frames to deliver, has returned with no frame read
\* and no callback made
C21_Witness ==
    /\ a_stopped
    /\ a_ret = "returned"
    /\ a_cam.opens /\ a_cam.nframes > 0
    /\ a_cb
    /\ a_idx = 0
    /\ a_calls = <<>>

IsPrefix(s, t) == Len(s) <= Len(t) /\ SubSeq(t, 1, Len(s)) = s

\* C22: enumerating the history gives the records in insertion order, and
\* a record once appended keeps its position and its field values in all
\* later states until a confirmed clear removes it: the only step that
\* changes which list the detector holds is the Yes answer of the clear
\* dialog, every other step leaves what the enumeration returned as a
\* prefix of what it returns afterwards, and no list object is ever changed
\* except by adding at its end.
C22_HistoryIsAppendOnly ==
    /\ [](Enumerate = History)
    /\ [][detection_history' # detection_history
             => (ui = "clear_confirm" /\ ui' = "msg_cleared"
                 /\ Len(Enumerate') = 0)]_vars
    /\ [][detection_history' = detection_history
             => IsPrefix(Enumerate, Enumerate')]_vars
    /\ [][\A k \in DOMAIN lists : IsPrefix(lists[k], lists'[k])]_vars

\* C22, its case: two runs of different tabs have appended, and the
\* enumeration gives their records in the order of the appends, the first
\* one unchanged by the second append
C22_Witness ==
    /\ Len(Enumerate) = 2
    /\ Enumerate[1].type = "video"
    /\ Enumerate[2].type = "image"
    /\ i_pc = "done"
    /\ v_pc = "done"

\* the steps that perform a run's append on the shared detector
AppendSteps ==
    \/ ImageAppend
    \/ VideoAppend
    \/ WebcamAppend

\* C23: when runs of different tabs finish concurrently on the shared
\* detector and no clear happens, no record is lost or duplicated: every
\* append of a run makes the log exactly one record longer, with the run's
\* record at its end and the records before it untouched, and no other
\* step changes the log, so that after n appends the log is n longer.
C23_NoAppendLost ==
    /\ [][AppendSteps
             => /\ Len(History') = Len(History) + 1
                /\ IsPrefix(History, History')]_vars
    /\ [][~AppendSteps => History' = History]_vars

\* C23, its case: an image run and a video run overlapped, each has just
\* performed its append, and the log holds both records
C23_Witness ==
    /\ i_pc = "result"
    /\ v_pc = "result"
    /\ Len(History) = 2
    /\ {History[1].type, History[2].type} = {"image", "video"}

\* C24: when a confirmed clear on the UI thread interleaves with a worker's
\* append, the record is not lost: an append that completes after the clear
\* has replaced the log puts its record in the log that later enumerations
\* and exports see.
C24_AppendAfterClearIsKept ==
    [][(AppendSteps /\ detection_history > 0)
          => /\ Len(Enumerate') = Len(Enumerate) + 1
             /\ IsPrefix(Enumerate, Enumerate')]_vars

\* C25: on every termination path of a video run (end of stream, stop
\* flag, exception inside the loop) the capture the run opened, and the
\* writer when one was opened, are released before the finished signal is
\* emitted (worker) or the call returns or raises (detect_video).
C25_ReleasedOnEveryPath ==
    /\ [][VideoEmitFinished => (v_cap # "open" /\ v_out # "open")]_vars
    /\ [](a_pc = "idle" => (a_cap # "open" /\ a_wr # "open"))

\* the values of the progress signals emitted so far by the video worker
ProgressEmitted ==
    LET IsProgress(s) == s[1] = "progress"
        P == SelectSeq(v_sig, IsProgress)
    IN  [k \in 1..Len(P) |-> P[k][2]]

\* C26: during a video run the progress values are non-decreasing integers
\* within 0..100 for every source, also one that reports a frame count of 0
\* or fewer frames than can be read, and the value is 100 exactly when the
\* last frame of a complete run has been processed.
C26_ProgressWithinRange ==
    LET P == ProgressEmitted IN
    /\ \A k \in 1..Len(P) : P[k] \in 0..100
    /\ \A k \in 1..(Len(P) - 1) : P[k] <= P[k + 1]
    /\ \A k \in 1..Len(P) : P[k] = 100 <=> k = v_src.nframes
    /\ (v_exit \in {"eos", "stop"}) => Len(P) = v_idx
    /\ (v_pc = "done" /\ v_src.opens /\ v_idx = v_src.nframes /\ v_idx > 0)
          => (Len(P) = v_idx /\ P[Len(P)] = 100)
    /\ \A k \in 1..Len(a_calls) :
          a_src.opens => /\ a_calls[k][1] <= 100 * a_calls[k][2]
                         /\ a_calls[k][1] % a_calls[k][2] = 0

\* C27: a video run that fails (the source cannot be opened, or an
\* exception is raised inside the frame loop) appends no record: a failed
\* worker run is never in the steps that record, its steps leave every list
\* and the detector's log as they were, a direct call that raises changes
\* neither, and the only steps that change a list are the append of a
\* worker run that left its loop at end of stream or by the stop flag and
\* the append of a direct call that returns.
C27_FailedRunAppendsNothing ==
    /\ [](v_exit = "error" => v_pc \in {"except", "finally", "done"})
    /\ [][((v_exit' = "error" \/ v_exit = "error") /\ v_pc' # v_pc)
             => UNCHANGED <<lists, detection_history>>]_vars
    /\ [][(a_ret' = "raised" /\ a_ret # "raised")
             => UNCHANGED <<lists, detection_history>>]_vars
    /\ [][lists' # lists
             => \/ VideoAppend /\ v_exit \in {"eos", "stop"}
                \/ DetectVideoAppend /\ a_ret' = "returned"]_vars

\* C27, its case: a worker run that failed inside its loop after a frame
\* has ended and a direct call has raised, and the log is still empty
C27_Witness ==
    /\ v_pc = "done"
    /\ v_exit = "error"
    /\ v_idx = 1
    /\ a_ret = "raised"
    /\ a_src.opens
    /\ detection_history = 0
    /\ History = <<>>

\* C28: when runs of different tabs overlap on the shared detector, the
\* frame the image tab's save action writes is one produced by the image
\* tab's own run, not one stored in the shared current-frame reference by a
\* video or webcam run of another tab.
C28_ImageSaveWritesImageFrame ==
    [][(ImageSaveResult /\ s_ret' = "True" /\ fs' # fs)
          => saved' \in {"image_raw", "image_annotated"}]_vars

\* C29: save_current_frame called before any frame was ever stored returns
\* False and creates neither the file nor its directory; in every other
\* case it attempts the write and returns the write's success value.
C29_SaveReturnsWriteResult ==
    [][SaveCurrentFrameCall
          => IF current_frame = "None"
             THEN s_ret' = "False" /\ fs' = fs /\ saved' = saved
             ELSE /\ s_ret' \in {"True", "False"}
                  /\ s_ret' = "True" => saved' = current_frame]_vars

====
